---- MODULE Spec2Model ----
(***************************************************************************)
(* sqv: the data browser (DataViewerTab), the query panes (QueryPane) and  *)
(* the database layer (DatabaseConnection) they share.                     *)
(*                                                                         *)
(* A row is identified by the integer in its first column.  A list of rows *)
(* is kept as a sequence of runs <<a, b>>: the rows a, a+1, .., b when     *)
(* a <= b and a, a-1, .., b when a > b.  The rows of the browsed table are *)
(* inserted and deleted block by block; blocks are separated by gaps, so   *)
(* that two equal lists of rows have equal run sequences.                  *)
(***************************************************************************)
EXTENDS Integers, Sequences, FiniteSets, TLC

VARIABLES dbTable, dv, panes, query_count, active, last, clock, screen_stack,
          tabs_active, detail, running, files, notification, scan,
          formatted, proc

vars == <<dbTable, dv, panes, query_count, active, last, clock, screen_stack,
          tabs_active, detail, running, files, notification, scan,
          formatted, proc>>

\* the direct calls of the database layer and of the cell formatters, and
\* the process: its phase, the path it was given and its connection
direct == <<scan, formatted, proc>>

\* the clock, the screens and the tab the application shows, the text of the
\* structure detail, whether the application runs, the files written and the
\* notification shown
env == <<clock, screen_stack, tabs_active, detail, running, files, notification,
         direct>>

(***************************************************************************)
(* Program constants and bounds                                            *)
(***************************************************************************)
PAGE_SIZE == 500

QP_PAGE_SIZE == 500

MAX_QUERIES == 5

\* Number of row blocks the statements of the model insert and delete.
MaxBlocks == 3

\* The absent value of str | None fields, and of filtered_count: int | None.
None == "<None>"

NoCount == << >>

TableName == "t"

(***************************************************************************)
(* Lists of rows as runs                                                   *)
(***************************************************************************)
RunLen(r) == IF r[2] >= r[1] THEN r[2] - r[1] + 1 ELSE r[1] - r[2] + 1

RECURSIVE Count(_)
Count(rl) == IF rl = << >> THEN 0 ELSE RunLen(Head(rl)) + Count(Tail(rl))

\* run r without its first n rows (0 <= n < RunLen(r))
RunDrop(r, n) == IF r[2] >= r[1] THEN <<r[1] + n, r[2]>> ELSE <<r[1] - n, r[2]>>

\* the first n rows of run r (0 < n <= RunLen(r))
RunTake(r, n) == IF r[2] >= r[1] THEN <<r[1], r[1] + n - 1>> ELSE <<r[1], r[1] - n + 1>>

RECURSIVE Drop(_, _)
Drop(rl, n) ==
    IF n <= 0 \/ rl = << >> THEN rl
    ELSE IF RunLen(Head(rl)) <= n THEN Drop(Tail(rl), n - RunLen(Head(rl)))
    ELSE <<RunDrop(Head(rl), n)>> \o Tail(rl)

RECURSIVE Take(_, _)
Take(rl, n) ==
    IF n <= 0 \/ rl = << >> THEN << >>
    ELSE IF RunLen(Head(rl)) <= n
         THEN <<Head(rl)>> \o Take(Tail(rl), n - RunLen(Head(rl)))
    ELSE <<RunTake(Head(rl), n)>>

RECURSIVE Reverse(_)
Reverse(rl) ==
    IF rl = << >> THEN << >>
    ELSE Reverse(Tail(rl)) \o << <<Head(rl)[2], Head(rl)[1]>> >>

\* the i-th row (1-based) of a list of rows
RECURSIVE ElemAt(_, _)
ElemAt(rl, i) ==
    IF RunLen(Head(rl)) >= i
    THEN (IF Head(rl)[2] >= Head(rl)[1] THEN Head(rl)[1] + i - 1 ELSE Head(rl)[1] - i + 1)
    ELSE ElemAt(Tail(rl), i - RunLen(Head(rl)))

\* python's rows[start:end] for 0 <= start
PySlice(rl, start, end) == Take(Drop(rl, start), end - start)

Min(a, b) == IF a <= b THEN a ELSE b

Max(a, b) == IF a >= b THEN a ELSE b

(***************************************************************************)
(* The engine: one table t(id INTEGER PRIMARY KEY, v), v = -id             *)
(***************************************************************************)
Blocks == 1 .. MaxBlocks

\* odd blocks hold PAGE_SIZE rows, even blocks one row
BlockSize(k) == IF k % 2 = 1 THEN PAGE_SIZE ELSE 1

BlockLo(k) == (k - 1) * 2 * PAGE_SIZE + 1

BlockRun(k) == <<BlockLo(k), BlockLo(k) + BlockSize(k) - 1>>

\* the rows of the table in rowid order when it holds the blocks 1 .. n
RECURSIVE BlockRows(_)
BlockRows(n) == IF n = 0 THEN << >> ELSE BlockRows(n - 1) \o <<BlockRun(n)>>

TableColumns == <<"id", "v">>

Err == [ok |-> FALSE]

\* filter texts a user types; "" and "  " strip to the empty string
FilterInputs == {"", "  ", "id > 1", "bogus (", "1 LIMIT 5"}

\* the same without the text the engine rejects outright
FewFilterInputs == {"", "id > 1", "1 LIMIT 5"}

Strip(s) == IF s = "  " THEN "" ELSE s

\* WHERE id > 1 over rows in rowid order
RECURSIVE WhereIdGt(_, _)
WhereIdGt(rl, k) ==
    IF rl = << >> THEN << >>
    ELSE IF Head(rl)[2] <= k THEN WhereIdGt(Tail(rl), k)
    ELSE << <<Max(Head(rl)[1], k + 1), Head(rl)[2]>> >> \o WhereIdGt(Tail(rl), k)

\* the rows of SELECT .. FROM t WHERE w, for the predicates the engine accepts
WhereRows(rl, w) == IF w = "id > 1" THEN WhereIdGt(rl, 1) ELSE rl

\* ORDER BY [col] dir; v = -id, so v ascending is id descending
OrderRows(rl, col, dir) ==
    IF col = None THEN rl
    ELSE IF (col = "id") = (dir = "ASC") THEN rl
    ELSE Reverse(rl)

\* DatabaseConnection.get_row_count
get_row_count(db, table) ==
    IF db.exists /\ ~db.locked /\ table = TableName
    THEN [ok |-> TRUE, value |-> Count(db.rows)]
    ELSE Err

\* DatabaseConnection.execute_sql on SELECT COUNT(*) FROM [table] WHERE w:
\* "bogus (" is rejected; "1 LIMIT 5" is accepted (the LIMIT applies to the
\* single row of the aggregate)
count_query(db, table, w) ==
    IF ~db.exists \/ db.locked \/ table # TableName \/ w = "bogus (" THEN Err
    ELSE [ok |-> TRUE, value |-> Count(WhereRows(db.rows, w))]

\* fetch_rows with LIMIT and OFFSET taken as the two ends of the slice
fetch_rows_SliceToLimit(db, table, offset, limit, order_by, order_dir, where) ==
    IF ~db.exists \/ db.locked \/ table # TableName THEN Err
    ELSE IF where # None /\ where \in {"bogus (", "1 LIMIT 5"} THEN Err
    ELSE [ok |-> TRUE,
          columns |-> TableColumns,
          rows |-> PySlice(OrderRows(IF where # None THEN WhereRows(db.rows, where)
                                     ELSE db.rows, order_by, order_dir),
                           offset, limit)]

\* DatabaseConnection.fetch_rows: "1 LIMIT 5" makes the query end in
\* LIMIT 5 LIMIT .. OFFSET .., which the engine rejects
fetch_rows(db, table, offset, limit, order_by, order_dir, where) ==
    IF ~db.exists \/ db.locked \/ table # TableName THEN Err
    ELSE IF where # None /\ where \in {"bogus (", "1 LIMIT 5"} THEN Err
    ELSE [ok |-> TRUE,
          columns |-> TableColumns,
          rows |-> PySlice(OrderRows(IF where # None THEN WhereRows(db.rows, where)
                                     ELSE db.rows, order_by, order_dir),
                           offset, offset + limit)]

(***************************************************************************)
(* DataViewerTab                                                           *)
(***************************************************************************)
NavButtons(has_prev, has_next) ==
    [first |-> ~has_prev, prev |-> ~has_prev, next |-> ~has_next, last |-> ~has_next]

\* DataViewerTab.__init__ and compose: fields, and the widgets' content
\* (nav: the buttons' disabled flags)
DataViewerInit ==
    [current_table |-> None, current_offset |-> 0, total_rows |-> 0,
     filtered_count |-> NoCount, order_by |-> None, order_dir |-> "ASC",
     where_clause |-> None, columns |-> << >>, current_rows |-> << >>,
     table |-> [columns |-> << >>, rows |-> << >>],
     page_info |-> <<"No data">>, status |-> "Select a table",
     nav |-> NavButtons(FALSE, FALSE), count_queries |-> 0,
     last_highlight |-> <<-1, -1, 0>>, last_select |-> <<-1, -1, 0>>,
     last_trigger |-> "none"]

\* mutant: a count that failed is not cached
CountedTab_FailureNotCached(d, db) ==
    IF d.where_clause # None /\ d.filtered_count = NoCount
    THEN LET r == count_query(db, d.current_table, d.where_clause)
         IN  [d EXCEPT !.filtered_count = IF r.ok THEN <<r.value>> ELSE NoCount,
                       !.count_queries = @ + 1]
    ELSE d

\* _get_effective_count: the tab after the call (the count is cached).
\* count_queries is history: the filtered COUNT(*) queries issued since
\* filtered_count was last unset.
CountedTab(d, db) ==
    IF d.where_clause # None /\ d.filtered_count = NoCount
    THEN LET r == count_query(db, d.current_table, d.where_clause)
         IN  [d EXCEPT !.filtered_count = IF r.ok THEN <<r.value>> ELSE <<0>>,
                       !.count_queries = @ + 1]
    ELSE d

\* _get_effective_count: the value returned (filtered_count or 0)
EffectiveCount(d, db) ==
    LET c == CountedTab(d, db)
    IN  IF d.where_clause # None
        THEN (IF c.filtered_count = NoCount THEN 0 ELSE c.filtered_count[1])
        ELSE d.total_rows

\* _update_nav_buttons
UpdateNavButtons(d, effective_count) ==
    [d EXCEPT !.nav = NavButtons(d.current_offset > 0,
                                 d.current_offset + PAGE_SIZE < effective_count)]

\* _load_data, except branch
LoadFailed(d) ==
    UpdateNavButtons([d EXCEPT !.status = "Error", !.page_info = <<"Error">>,
                               !.table = [columns |-> << >>, rows |-> << >>]], 0)

\* _load_data, after get_row_count and _get_effective_count succeeded
LoadFetched(d, db, effective_count) ==
    LET f == fetch_rows(db, d.current_table, d.current_offset, PAGE_SIZE,
                        d.order_by, d.order_dir, d.where_clause)
        loaded == Count(f.rows)
        start == IF loaded > 0 THEN d.current_offset + 1 ELSE 0
        end == d.current_offset + loaded
    IN  IF ~f.ok THEN LoadFailed(d)
        ELSE UpdateNavButtons(
               [d EXCEPT !.columns = f.columns, !.current_rows = f.rows,
                         !.table = [columns |-> f.columns, rows |-> f.rows],
                         !.page_info = IF effective_count > 0
                                       THEN <<"Rows", start, end, effective_count>>
                                       ELSE <<"No matching rows">>,
                         !.status = "Table"],
               effective_count)

\* _load_data
LoadData(d, db) ==
    IF d.current_table = None THEN d
    ELSE LET c == get_row_count(db, d.current_table)
             d1 == [d EXCEPT !.total_rows = c.value]
         IN  IF ~c.ok THEN LoadFailed(d)
             ELSE LoadFetched(CountedTab(d1, db), db, EffectiveCount(d1, db))

\* what a call of _load_data did: "none", "ok" or "error"
LoadOutcome(d, db) ==
    IF d.current_table = None THEN "none"
    ELSE IF LoadData(d, db).status = "Error" THEN "error" ELSE "ok"

\* (sql: what the handler was given, when it ran a statement or an export)
Event(op, load) == [op |-> op, load |-> load, sql |-> None]

\* on_select_changed, before it loads
TableSelected(d, table) ==
    [d EXCEPT !.current_table = table, !.current_offset = 0, !.order_by = None,
              !.order_dir = "ASC", !.where_clause = None, !.filtered_count = NoCount,
              !.count_queries = 0]

\* on_select_changed with a table of the select's options
OnSelectChanged ==
    LET d == TableSelected(dv, TableName)
    IN  /\ dv' = LoadData(d, dbTable)
        /\ last' = Event("select_table", LoadOutcome(d, dbTable))
        /\ UNCHANGED <<dbTable, panes, query_count, active, env>>

\* _clear_filter, before it loads
FilterCleared(d) ==
    [d EXCEPT !.where_clause = None, !.filtered_count = NoCount,
              !.current_offset = 0, !.count_queries = 0]

\* _clear_filter
ClearFilter ==
    LET d == FilterCleared(dv)
    IN  /\ dv' = LoadData(d, dbTable)
        /\ last' = Event("clear_filter", LoadOutcome(d, dbTable))
        /\ UNCHANGED <<dbTable, panes, query_count, active, env>>

\* mutant: the offset is kept
FilterApplied_KeepOffset(d, text) ==
    [d EXCEPT !.where_clause = IF Strip(text) # "" THEN Strip(text) ELSE None,
              !.filtered_count = NoCount, !.count_queries = 0]

\* mutant: the cached count is kept
FilterApplied_KeepCount(d, text) ==
    [d EXCEPT !.where_clause = IF Strip(text) # "" THEN Strip(text) ELSE None,
              !.current_offset = 0]

\* _apply_filter, before it loads
FilterApplied(d, text) ==
    LET where == Strip(text)
    IN  [d EXCEPT !.where_clause = IF where # "" THEN where ELSE None,
                  !.filtered_count = NoCount, !.current_offset = 0,
                  !.count_queries = 0]

\* _apply_filter on the text of the filter input, one of texts
ApplyFilter(texts) ==
    \E text \in texts :
        LET d == FilterApplied(dv, text)
        IN  /\ dv' = LoadData(d, dbTable)
            /\ last' = Event("apply_filter", LoadOutcome(d, dbTable))
            /\ UNCHANGED <<dbTable, panes, query_count, active, env>>

\* mutant: a new sort column keeps the direction of the old one
HeaderSorted_KeepDir(d, column_key) ==
    [d EXCEPT !.order_by = column_key,
              !.order_dir = IF d.order_by = column_key
                            THEN (IF d.order_dir = "ASC" THEN "DESC" ELSE "ASC")
                            ELSE d.order_dir,
              !.current_offset = 0]

\* on_data_table_header_selected, before it loads
HeaderSorted(d, column_key) ==
    LET d0 == IF d.order_by = column_key
              THEN [d EXCEPT !.order_dir = IF d.order_dir = "ASC" THEN "DESC" ELSE "ASC"]
              ELSE [d EXCEPT !.order_by = column_key, !.order_dir = "ASC"]
    IN  [d0 EXCEPT !.current_offset = 0]

\* on_data_table_header_selected, on a header the table shows, one of keys
OnHeaderSelected(keys) ==
    \E i \in 1 .. Len(dv.table.columns) :
        LET column_key == dv.table.columns[i]
            d == HeaderSorted(dv, column_key)
        IN  /\ column_key \in keys
            /\ dv' = IF dv.current_table = None THEN dv ELSE LoadData(d, dbTable)
            /\ last' = Event("header", IF dv.current_table = None THEN "none"
                                       ELSE LoadOutcome(d, dbTable))
            /\ UNCHANGED <<dbTable, panes, query_count, active, env>>

\* mutant: the last row of a full page counts as a next page
HasNextPage_Inclusive(offset, effective_count) == offset + PAGE_SIZE <= effective_count

\* action_next_page: the condition under which it moves
HasNextPage(offset, effective_count) == offset + PAGE_SIZE < effective_count

\* action_next_page
ActionNextPage ==
    LET effective_count == EffectiveCount(dv, dbTable)
        c == CountedTab(dv, dbTable)
        d == [c EXCEPT !.current_offset = c.current_offset + PAGE_SIZE]
        go == dv.current_table # None /\ HasNextPage(dv.current_offset, effective_count)
    IN  /\ dv' = IF dv.current_table = None THEN dv
                 ELSE IF go THEN LoadData(d, dbTable) ELSE c
        /\ last' = Event("next", IF go THEN LoadOutcome(d, dbTable) ELSE "none")
        /\ UNCHANGED <<dbTable, panes, query_count, active, env>>

\* mutant: the offset is not looked at
HasPrevPage_NoOffsetCheck(d) == d.current_table # None

\* action_prev_page and action_first_page: the condition under which they move
HasPrevPage(d) == d.current_table # None /\ d.current_offset > 0

\* action_prev_page
ActionPrevPage ==
    LET d == [dv EXCEPT !.current_offset = Max(0, dv.current_offset - PAGE_SIZE)]
        go == HasPrevPage(dv)
    IN  /\ dv' = IF go THEN LoadData(d, dbTable) ELSE dv
        /\ last' = Event("prev", IF go THEN LoadOutcome(d, dbTable) ELSE "none")
        /\ UNCHANGED <<dbTable, panes, query_count, active, env>>

\* action_first_page
ActionFirstPage ==
    LET d == [dv EXCEPT !.current_offset = 0]
        go == HasPrevPage(dv)
    IN  /\ dv' = IF go THEN LoadData(d, dbTable) ELSE dv
        /\ last' = Event("first", IF go THEN LoadOutcome(d, dbTable) ELSE "none")
        /\ UNCHANGED <<dbTable, panes, query_count, active, env>>

\* mutant: the last page is taken to be the last PAGE_SIZE rows
LastPageOffset_FromEnd(effective_count) == effective_count - PAGE_SIZE

\* mutant: the count is rounded down without the - 1
LastPageOffset_NoMinusOne(effective_count) == (effective_count \div PAGE_SIZE) * PAGE_SIZE

\* action_last_page: the offset it moves to
LastPageOffset(effective_count) == ((effective_count - 1) \div PAGE_SIZE) * PAGE_SIZE

\* action_last_page
ActionLastPage ==
    LET effective_count == EffectiveCount(dv, dbTable)
        c == CountedTab(dv, dbTable)
        d == [c EXCEPT !.current_offset = LastPageOffset(effective_count)]
        go == dv.current_table # None /\ effective_count > PAGE_SIZE
    IN  /\ dv' = IF dv.current_table = None THEN dv
                 ELSE IF go THEN LoadData(d, dbTable) ELSE c
        /\ last' = Event("last", IF go THEN LoadOutcome(d, dbTable) ELSE "none")
        /\ UNCHANGED <<dbTable, panes, query_count, active, env>>

(***************************************************************************)
(* The statements a user runs in a query pane                              *)
(***************************************************************************)
\* the text of the SQL input: empty, a SELECT of the table, a misspelt
\* statement, two statements at once, DROP TABLE, an INSERT of the next
\* block of rows after the last one, and a DELETE of the last block
SqlInputs == {"empty", "select", "syntax", "multi", "drop", "insert", "delete"}

MutatingInputs == {"empty", "syntax", "drop", "insert", "delete"}

\* Connection.commit
Commit(db) ==
    [db EXCEPT !.in_transaction = FALSE,
               !.disk = [exists |-> db.exists, rows |-> db.rows]]

\* Connection.execute: the cursor, and the database afterwards.  More than
\* one statement, a misspelt statement and a missing table are rejected when
\* the statement is prepared, and nothing runs while the file is locked;
\* INSERT and DELETE open a transaction; DROP TABLE, outside a transaction,
\* is written at once and has rowcount -1; SELECT 1, 1 reads no table and
\* returns one row under two columns of the same name
conn_execute(db, sql) ==
    LET n == Len(db.rows)
    IN  IF sql = "select 1, 1"
        THEN [ok |-> TRUE, description |-> <<"1", "1">>, rows |-> << <<1, 1>> >>,
              rowcount |-> -1, db |-> db]
        ELSE IF sql \in {"syntax", "multi"} \/ ~db.exists \/ db.locked THEN Err
        ELSE IF sql = "select"
        THEN [ok |-> TRUE, description |-> TableColumns, rows |-> db.rows,
              rowcount |-> -1, db |-> db]
        ELSE IF sql = "insert"
        THEN [ok |-> TRUE, description |-> << >>, rows |-> << >>,
              rowcount |-> BlockSize(n + 1),
              db |-> [db EXCEPT !.rows = BlockRows(n + 1), !.in_transaction = TRUE]]
        ELSE IF sql = "delete"
        THEN [ok |-> TRUE, description |-> << >>, rows |-> << >>,
              rowcount |-> IF n > 0 THEN BlockSize(n) ELSE 0,
              db |-> [db EXCEPT !.rows = BlockRows(Max(n - 1, 0)),
                                !.in_transaction = TRUE]]
        ELSE [ok |-> TRUE, description |-> << >>, rows |-> << >>, rowcount |-> -1,
              db |-> [db EXCEPT !.exists = FALSE, !.rows = << >>,
                                !.disk = IF db.in_transaction THEN @
                                         ELSE [exists |-> FALSE, rows |-> << >>]]]

\* mutant: the text is run as a script, its first statement a DELETE
execute_sql_Script(db, sql) ==
    LET c == conn_execute(db, IF sql = "multi" THEN "delete" ELSE sql)
    IN  IF ~c.ok THEN Err
        ELSE IF c.description # << >>
        THEN [ok |-> TRUE, columns |-> c.description, rows |-> c.rows, db |-> c.db]
        ELSE [ok |-> TRUE, columns |-> <<"rows_affected">>,
              rows |-> << <<c.rowcount, c.rowcount>> >>, db |-> Commit(c.db)]

\* mutant: a statement without a result set is not committed
execute_sql_NoCommit(db, sql) ==
    LET c == conn_execute(db, sql)
    IN  IF ~c.ok THEN Err
        ELSE IF c.description # << >>
        THEN [ok |-> TRUE, columns |-> c.description, rows |-> c.rows, db |-> c.db]
        ELSE [ok |-> TRUE, columns |-> <<"rows_affected">>,
              rows |-> << <<c.rowcount, c.rowcount>> >>, db |-> c.db]

\* DatabaseConnection.execute_sql: the result, and the database afterwards (a
\* statement without a result set is committed)
execute_sql(db, sql) ==
    LET c == conn_execute(db, sql)
    IN  IF ~c.ok THEN Err
        ELSE IF c.description # << >>
        THEN [ok |-> TRUE, columns |-> c.description, rows |-> c.rows, db |-> c.db]
        ELSE [ok |-> TRUE, columns |-> <<"rows_affected">>,
              rows |-> << <<c.rowcount, c.rowcount>> >>, db |-> Commit(c.db)]

(***************************************************************************)
(* QueryPane                                                               *)
(***************************************************************************)
\* QueryPane.__init__ and compose
QueryPaneInit ==
    [query_id |-> 1, last_columns |-> << >>, last_rows |-> << >>, current_offset |-> 0,
     table |-> [columns |-> << >>, rows |-> << >>],
     page_info |-> <<"No results">>, status |-> "Ctrl+Enter to run",
     nav |-> NavButtons(FALSE, FALSE),
     last_highlight |-> <<-1, -1, 0>>, last_select |-> <<-1, -1, 0>>,
     last_trigger |-> "none"]

\* QueryPane._update_nav_buttons
PaneUpdateNavButtons(p) ==
    LET total == Count(p.last_rows)
    IN  [p EXCEPT !.nav = NavButtons(p.current_offset > 0,
                                     p.current_offset + QP_PAGE_SIZE < total)]

\* QueryPane._display_current_page
DisplayCurrentPage(p) ==
    LET start == p.current_offset
        end == Min(start + QP_PAGE_SIZE, Count(p.last_rows))
        total == Count(p.last_rows)
    IN  IF p.last_columns = << >>
        THEN PaneUpdateNavButtons(
               [p EXCEPT !.table = [columns |-> << >>, rows |-> << >>],
                         !.page_info = <<"No results">>])
        ELSE PaneUpdateNavButtons(
               [p EXCEPT !.table = [columns |-> p.last_columns,
                                    rows |-> PySlice(p.last_rows, start, end)],
                         !.page_info = IF total > 0 THEN <<"Rows", start + 1, end, total>>
                                       ELSE <<"No results">>])

\* DataTable.add_column(col, key=col) raises DuplicateKey when the key is
\* already a column of the table
DuplicateKey(columns) ==
    \E i, j \in 1 .. Len(columns) : i < j /\ columns[i] = columns[j]

\* the try block of QueryPane.execute_sql raises: db.execute_sql does, or
\* _display_current_page does after the result was stored
ExecuteRaised(db, sql) ==
    LET r == execute_sql(db, sql)
    IN  ~r.ok \/ DuplicateKey(r.columns)

\* QueryPane.execute_sql: the pane afterwards
PaneExecuted(p, db, sql) ==
    LET r == execute_sql(db, sql)
        stored == IF r.ok THEN [p EXCEPT !.last_columns = r.columns,
                                         !.last_rows = r.rows,
                                         !.current_offset = 0]
                  ELSE p
    IN  IF sql = "empty" THEN [p EXCEPT !.status = "No SQL to execute"]
        ELSE IF ~ExecuteRaised(db, sql)
        THEN [DisplayCurrentPage(stored) EXCEPT !.status = "Success"]
        ELSE [PaneUpdateNavButtons([stored EXCEPT !.table = [columns |-> << >>,
                                                             rows |-> << >>]])
                EXCEPT !.status = "Error"]

\* SQLTab._get_active_query_pane that finds the first pane
get_active_query_pane_First(active_id) == 1

\* SQLTab._get_active_query_pane: the number at the end of the id of the
\* active tab
get_active_query_pane(active_id) == active_id

\* SQLTab.action_execute_sql -> QueryPane.execute_sql of the active pane, on
\* one of the texts sqls
ExecuteSql(sqls) ==
    \E sql \in sqls :
        LET r == execute_sql(dbTable, sql)
            done == sql # "empty" /\ r.ok
        IN  /\ sql = "insert" /\ dbTable.exists => Len(dbTable.rows) < MaxBlocks
            /\ panes' = [panes EXCEPT ![get_active_query_pane(active)] =
                                          PaneExecuted(@, dbTable, sql)]
            /\ dbTable' = IF done THEN r.db ELSE dbTable
            /\ last' = [Event("execute", IF sql = "empty" THEN "none"
                                         ELSE IF ExecuteRaised(dbTable, sql) THEN "error"
                                         ELSE "ok")
                            EXCEPT !.sql = sql]
            /\ UNCHANGED <<dv, query_count, active, env>>

\* QueryPane._next_page
PaneNextValid(p) == p.current_offset + QP_PAGE_SIZE < Count(p.last_rows)

PaneAfterNext(p) ==
    IF PaneNextValid(p)
    THEN DisplayCurrentPage([p EXCEPT !.current_offset = p.current_offset + QP_PAGE_SIZE])
    ELSE p

PaneNextPage ==
    LET p == panes[active]
    IN  /\ panes' = [panes EXCEPT ![active] = PaneAfterNext(p)]
        /\ last' = Event("q_next", IF PaneNextValid(p) THEN "ok" ELSE "none")
        /\ UNCHANGED <<dbTable, dv, query_count, active, env>>

\* QueryPane._prev_page
PanePrevValid(p) == p.current_offset > 0

\* QueryPane._prev_page that goes back to the first page
PaneAfterPrev_ToFirst(p) ==
    IF PanePrevValid(p)
    THEN DisplayCurrentPage([p EXCEPT !.current_offset = 0])
    ELSE p

PaneAfterPrev(p) ==
    IF PanePrevValid(p)
    THEN DisplayCurrentPage([p EXCEPT !.current_offset =
                                          Max(0, p.current_offset - QP_PAGE_SIZE)])
    ELSE p

PanePrevPage ==
    LET p == panes[active]
    IN  /\ panes' = [panes EXCEPT ![active] = PaneAfterPrev(p)]
        /\ last' = Event("q_prev", IF PanePrevValid(p) THEN "ok" ELSE "none")
        /\ UNCHANGED <<dbTable, dv, query_count, active, env>>

\* QueryPane._first_page
PaneFirstPage ==
    LET p == panes[active]
        go == p.current_offset > 0
        q == [p EXCEPT !.current_offset = 0]
    IN  /\ panes' = [panes EXCEPT ![active] = IF go THEN DisplayCurrentPage(q) ELSE p]
        /\ last' = Event("q_first", IF go THEN "ok" ELSE "none")
        /\ UNCHANGED <<dbTable, dv, query_count, active, env>>

\* QueryPane._last_page
PaneLastValid(p) == Count(p.last_rows) > QP_PAGE_SIZE

\* QueryPane._last_page that shows the last PAGE_SIZE rows
PaneAfterLast_FromEnd(p) ==
    IF PaneLastValid(p)
    THEN DisplayCurrentPage([p EXCEPT !.current_offset =
                                          Count(p.last_rows) - QP_PAGE_SIZE])
    ELSE p

PaneAfterLast(p) ==
    LET total == Count(p.last_rows)
    IN  IF PaneLastValid(p)
        THEN DisplayCurrentPage([p EXCEPT !.current_offset =
                                              ((total - 1) \div QP_PAGE_SIZE) * QP_PAGE_SIZE])
        ELSE p

PaneLastPage ==
    LET p == panes[active]
    IN  /\ panes' = [panes EXCEPT ![active] = PaneAfterLast(p)]
        /\ last' = Event("q_last", IF PaneLastValid(p) THEN "ok" ELSE "none")
        /\ UNCHANGED <<dbTable, dv, query_count, active, env>>

(***************************************************************************)
(* Cell inspection: highlight and select events of a table of cells        *)
(* (times in milliseconds)                                                 *)
(***************************************************************************)
\* time_since_highlight > 0.1
DEBOUNCE_MS == 100

\* time_since_select < 0.5
DOUBLE_CLICK_MS == 500

\* time.time() when the application starts
StartTime == 1000

\* the clock is read at whole steps of this length, MaxTicks times at most
TickMs == DEBOUNCE_MS

MaxTicks == 5

\* the cells that receive events: (row, column) in the table shown
CellInputs == {<<0, 0>>, <<0, 1>>, <<1, 0>>}

\* the cells of CellInputs that a table widget shows
CellsOf(table) ==
    {c \in CellInputs : c[1] < Count(table.rows) /\ c[2] < Len(table.columns)}

\* the raw value in column col (0-based) of the row with this id
CellValue(columns, id, col) == IF columns[col + 1] = "v" THEN 0 - id ELSE id

\* on_data_table_cell_highlighted (both widgets)
CellHighlighted(w, row, col, now) == [w EXCEPT !.last_highlight = <<row, col, now>>]

\* mutant: a select at the debounce time exactly confirms
KeyboardConfirm_AtLeast(w, row, col, now) ==
    /\ row = w.last_highlight[1]
    /\ col = w.last_highlight[2]
    /\ now - w.last_highlight[3] >= DEBOUNCE_MS

\* on_data_table_cell_selected, the check for keyboard Enter
KeyboardConfirm(w, row, col, now) ==
    /\ row = w.last_highlight[1]
    /\ col = w.last_highlight[2]
    /\ now - w.last_highlight[3] > DEBOUNCE_MS

\* mutant: a second select at the end of the window counts
DoubleClick_Inclusive(w, row, col, now) ==
    /\ row = w.last_select[1]
    /\ col = w.last_select[2]
    /\ now - w.last_select[3] <= DOUBLE_CLICK_MS

\* mutant: a second select counts whatever its cell
DoubleClick_AnyCell(w, row, col, now) == now - w.last_select[3] < DOUBLE_CLICK_MS

\* on_data_table_cell_selected, the check for a mouse double-click
DoubleClick(w, row, col, now) ==
    /\ row = w.last_select[1]
    /\ col = w.last_select[2]
    /\ now - w.last_select[3] < DOUBLE_CLICK_MS

\* on_data_table_cell_selected: why it calls _show_cell_viewer, if it does
CellTrigger(w, row, col, now) ==
    IF KeyboardConfirm(w, row, col, now) THEN "confirm"
    ELSE IF DoubleClick(w, row, col, now) THEN "double"
    ELSE "none"

\* on_data_table_cell_selected: the widget afterwards (last_trigger keeps
\* what the handler decided)
CellSelected(w, row, col, now) ==
    [w EXCEPT !.last_select = <<row, col, now>>,
              !.last_trigger = CellTrigger(w, row, col, now)]

\* DataViewerTab._show_cell_viewer: the screens it pushes
ShowCellViewer(d, row_idx, col_idx) ==
    IF d.current_rows = << >> \/ row_idx >= Count(d.current_rows) THEN << >>
    ELSE IF d.columns = << >> \/ col_idx >= Len(d.columns) THEN << >>
    ELSE <<[column_name |-> d.columns[col_idx + 1],
            value |-> CellValue(d.columns, ElemAt(d.current_rows, row_idx + 1), col_idx)]>>

\* QueryPane._show_cell_viewer: the screens it pushes
PaneShowCellViewer(p, row_idx, col_idx) ==
    LET actual_row_idx == p.current_offset + row_idx
    IN  IF p.last_rows = << >> \/ actual_row_idx >= Count(p.last_rows) THEN << >>
        ELSE IF p.last_columns = << >> \/ col_idx >= Len(p.last_columns) THEN << >>
        ELSE <<[column_name |-> p.last_columns[col_idx + 1],
                value |-> CellValue(p.last_columns,
                                    ElemAt(p.last_rows, actual_row_idx + 1), col_idx)]>>

\* DataViewerTab.on_data_table_cell_highlighted: the cursor of the data
\* table moved to a cell
OnCellHighlighted ==
    \E c \in CellsOf(dv.table) :
        /\ tabs_active = "data"
        /\ screen_stack = << >>
        /\ dv' = CellHighlighted(dv, c[1], c[2], clock)
        /\ last' = Event("cell_highlighted", "none")
        /\ UNCHANGED <<dbTable, panes, query_count, active, env>>

\* DataViewerTab.on_data_table_cell_selected: a click or Enter on a cell of
\* the data table
OnCellSelected ==
    \E c \in CellsOf(dv.table) :
        /\ tabs_active = "data"
        /\ screen_stack = << >>
        /\ dv' = CellSelected(dv, c[1], c[2], clock)
        /\ screen_stack' = IF CellTrigger(dv, c[1], c[2], clock) # "none"
                           THEN screen_stack \o ShowCellViewer(dv, c[1], c[2])
                           ELSE screen_stack
        /\ last' = Event("cell_selected", "none")
        /\ UNCHANGED <<dbTable, panes, query_count, active, clock, tabs_active, detail,
                     running, files, notification, direct>>

\* QueryPane.on_data_table_cell_highlighted, in the active pane
PaneOnCellHighlighted ==
    \E c \in CellsOf(panes[active].table) :
        /\ tabs_active = "sql"
        /\ screen_stack = << >>
        /\ panes' = [panes EXCEPT ![active] = CellHighlighted(@, c[1], c[2], clock)]
        /\ last' = Event("q_cell_highlighted", "none")
        /\ UNCHANGED <<dbTable, dv, query_count, active, env>>

\* QueryPane.on_data_table_cell_selected, in the active pane
PaneOnCellSelected ==
    \E c \in CellsOf(panes[active].table) :
        /\ tabs_active = "sql"
        /\ screen_stack = << >>
        /\ panes' = [panes EXCEPT ![active] = CellSelected(@, c[1], c[2], clock)]
        /\ screen_stack' = IF CellTrigger(panes[active], c[1], c[2], clock) # "none"
                           THEN screen_stack \o PaneShowCellViewer(panes[active], c[1], c[2])
                           ELSE screen_stack
        /\ last' = Event("q_cell_selected", "none")
        /\ UNCHANGED <<dbTable, dv, query_count, active, clock, tabs_active, detail,
                     running, files, notification, direct>>

\* DataTable.cursor_coordinate: a cell of the table, and (0, 0) in a table
\* that was cleared
CursorCoordinates(table) ==
    IF CellsOf(table) = {} THEN {<<0, 0>>} ELSE CellsOf(table)

\* DataViewerTab.action_view_cell (the Enter binding of the tab)
ActionViewCell ==
    \E c \in CursorCoordinates(dv.table) :
        /\ tabs_active = "data"
        /\ screen_stack = << >>
        /\ screen_stack' = screen_stack \o ShowCellViewer(dv, c[1], c[2])
        /\ last' = [Event("view_cell", "none") EXCEPT !.sql = c]
        /\ UNCHANGED <<dbTable, dv, panes, query_count, active, clock, tabs_active,
                       detail, running, files, notification, direct>>

\* SQLTab.action_view_cell -> QueryPane.view_current_cell of the active pane
PaneViewCurrentCell ==
    \E c \in CursorCoordinates(panes[active].table) :
        /\ tabs_active = "sql"
        /\ screen_stack = << >>
        /\ screen_stack' = screen_stack \o PaneShowCellViewer(panes[active], c[1], c[2])
        /\ last' = [Event("q_view_cell", "none") EXCEPT !.sql = c]
        /\ UNCHANGED <<dbTable, dv, panes, query_count, active, clock, tabs_active,
                       detail, running, files, notification, direct>>

\* CellViewerScreen.action_close: Escape dismisses the cell viewer
ActionClose ==
    /\ screen_stack # << >>
    /\ screen_stack' = SubSeq(screen_stack, 1, Len(screen_stack) - 1)
    /\ last' = Event("close", "none")
    /\ UNCHANGED <<dbTable, dv, panes, query_count, active, clock, tabs_active, detail,
                     running, files, notification, direct>>

\* time passes between two events
Tick ==
    /\ clock + TickMs <= StartTime + MaxTicks * TickMs
    /\ clock' = clock + TickMs
    /\ last' = Event("tick", "none")
    /\ UNCHANGED <<dbTable, dv, panes, query_count, active, screen_stack, tabs_active,
                 detail, running, files, notification, direct>>

(***************************************************************************)
(* The structure tab                                                       *)
(***************************************************************************)
\* the nodes of the structure tree for the table: (object_type, name)
TreeNodes == {<<"table", "t">>, <<"column", "t.id">>}

\* DatabaseConnection.get_table_sql
get_table_sql(db, name) ==
    IF db.locked THEN Err
    ELSE [ok |-> TRUE, value |-> IF db.exists /\ name = TableName THEN "CREATE TABLE t" ELSE ""]

\* StructureDetail.show_object: the text shown, for a node of the table
show_object(db, object_type, name) ==
    LET sql == get_table_sql(db, TableName).value
    IN  IF object_type = "column" THEN <<"-- Column from table: t", sql>>
        ELSE IF sql # "" THEN <<sql>>
        ELSE <<"No SQL definition available for t">>

\* StructureTree.on_tree_node_selected -> StructureTab.
\* on_structure_tree_object_selected -> StructureDetail.show_object; an
\* exception of get_table_sql leaves the handler and ends the application
OnObjectSelected ==
    \E node \in TreeNodes :
        /\ detail' = IF get_table_sql(dbTable, TableName).ok
                     THEN show_object(dbTable, node[1], node[2])
                     ELSE detail
        /\ running' = get_table_sql(dbTable, TableName).ok
        /\ last' = Event("object_selected",
                         IF get_table_sql(dbTable, TableName).ok THEN "ok" ELSE "error")
        /\ UNCHANGED <<dbTable, dv, panes, query_count, active, clock, screen_stack,
                       tabs_active, files, notification, direct>>

\* another process takes the lock of the database file, so that every
\* statement of this connection fails with "database is locked"
OtherProcessLocks ==
    /\ ~dbTable.locked
    /\ dbTable' = [dbTable EXCEPT !.locked = TRUE]
    /\ UNCHANGED <<dv, panes, query_count, active, last, env>>

\* the other process releases the lock
OtherProcessUnlocks ==
    /\ dbTable.locked
    /\ dbTable' = [dbTable EXCEPT !.locked = FALSE]
    /\ UNCHANGED <<dv, panes, query_count, active, last, env>>

(***************************************************************************)
(* Export                                                                  *)
(***************************************************************************)
\* the formats and file names the export dialog returns: a file in the
\* working directory, and one in a directory that does not exist
ExportFormats == {"csv", "json", "xml"}

FileNames == {"out", "missing/out"}

\* a path that names no file
NoFile == [format |-> "none"]

\* open(path, "w") succeeds
CanOpen(filename) == filename = "out"

\* csv.writer: writerow(last_columns), writerows(last_rows)
CsvFile(columns, rows) == [format |-> "csv", header |-> columns, records |-> rows]

\* json.dump of one dict(zip(last_columns, row)) for each row
JsonFile(columns, rows) == [format |-> "json", keys |-> columns, objects |-> rows]

\* mutant: the file is opened before the format is looked at
export_results_OpenFirst(p, fs, fmt, filename) ==
    IF p.last_columns = << >> \/ p.last_rows = << >>
    THEN [error |-> <<"No results to export">>, files |-> fs]
    ELSE IF ~CanOpen(filename) THEN [error |-> <<"No such file or directory">>, files |-> fs]
    ELSE IF fmt = "csv"
    THEN [error |-> None, files |-> [fs EXCEPT ![filename] = CsvFile(p.last_columns, p.last_rows)]]
    ELSE IF fmt = "json"
    THEN [error |-> None, files |-> [fs EXCEPT ![filename] = JsonFile(p.last_columns, p.last_rows)]]
    ELSE [error |-> <<"Unknown format", fmt>>,
          files |-> [fs EXCEPT ![filename] = CsvFile(<< >>, << >>)]]

\* mutant: the rows of the page shown are written
export_results_PageOnly(p, fs, fmt, filename) ==
    IF p.last_columns = << >> \/ p.last_rows = << >>
    THEN [error |-> <<"No results to export">>, files |-> fs]
    ELSE IF fmt \notin {"csv", "json"} THEN [error |-> <<"Unknown format", fmt>>, files |-> fs]
    ELSE IF ~CanOpen(filename) THEN [error |-> <<"No such file or directory">>, files |-> fs]
    ELSE IF fmt = "csv"
    THEN [error |-> None,
          files |-> [fs EXCEPT ![filename] = CsvFile(p.last_columns, p.table.rows)]]
    ELSE [error |-> None,
          files |-> [fs EXCEPT ![filename] = JsonFile(p.last_columns, p.table.rows)]]

\* QueryPane.export_results: the error returned (None on success) and the
\* files afterwards
export_results(p, fs, fmt, filename) ==
    IF p.last_columns = << >> \/ p.last_rows = << >>
    THEN [error |-> <<"No results to export">>, files |-> fs]
    ELSE IF fmt = "csv"
    THEN (IF CanOpen(filename)
          THEN [error |-> None,
                files |-> [fs EXCEPT ![filename] = CsvFile(p.last_columns, p.last_rows)]]
          ELSE [error |-> <<"No such file or directory">>, files |-> fs])
    ELSE IF fmt = "json"
    THEN (IF CanOpen(filename)
          THEN [error |-> None,
                files |-> [fs EXCEPT ![filename] = JsonFile(p.last_columns, p.last_rows)]]
          ELSE [error |-> <<"No such file or directory">>, files |-> fs])
    ELSE [error |-> <<"Unknown format", fmt>>, files |-> fs]

\* SQLTab._handle_export with the format and file name of the export dialog
HandleExport ==
    \E fmt \in ExportFormats, filename \in FileNames :
        LET r == export_results(panes[active], files, fmt, filename)
        IN  /\ files' = r.files
            /\ notification' = IF r.error # None
                                THEN [severity |-> "error", message |-> <<"Export failed">> \o r.error]
                                ELSE [severity |-> "information",
                                      message |-> <<"Exported to", filename>>]
            /\ last' = [Event("export", IF r.error # None THEN "error" ELSE "ok")
                            EXCEPT !.sql = <<fmt, filename>>]
            /\ UNCHANGED <<dbTable, dv, panes, query_count, active, clock, screen_stack,
                           tabs_active, detail, running, direct>>

\* SQLTab._handle_export when the export dialog was cancelled
HandleExportCancelled ==
    /\ last' = Event("export", "none")
    /\ UNCHANGED <<dbTable, dv, panes, query_count, active, env>>

(***************************************************************************)
(* Direct calls of DatabaseConnection.fetch_rows, window after window      *)
(***************************************************************************)
\* Number of successive windows one scan fetches.
MaxWindows == 6

OffsetInputs == {0, 1, PAGE_SIZE, PAGE_SIZE + 1, 2 * PAGE_SIZE, 2 * PAGE_SIZE + 2}

LimitInputs == {0, 1, PAGE_SIZE \div 2, PAGE_SIZE, PAGE_SIZE + 1}

SortInputs == {<<None, "ASC">>, <<"id", "ASC">>, <<"id", "DESC">>,
               <<"v", "ASC">>, <<"v", "DESC">>}

WhereInputs == {None, "", "id > 1", "bogus ("}

NoScan == [windows |-> 0]

\* db.fetch_rows(table, offset, limit, order_by, order_dir, where), called
\* as the tests call it; rows: the rows of this window, acc: the rows of
\* the windows fetched since start
FetchRows ==
    \E offset \in OffsetInputs, limit \in LimitInputs, sort \in SortInputs,
       where \in WhereInputs :
        LET r == fetch_rows(dbTable, TableName, offset, limit, sort[1], sort[2], where)
        IN  /\ scan' = [windows |-> 1, start |-> offset, offset |-> offset,
                        limit |-> limit, order_by |-> sort[1], order_dir |-> sort[2],
                        where |-> where, ok |-> r.ok,
                        rows |-> IF r.ok THEN r.rows ELSE << >>,
                        acc |-> IF r.ok THEN r.rows ELSE << >>]
            /\ last' = Event("fetch_rows", IF r.ok THEN "ok" ELSE "error")
            /\ UNCHANGED <<dbTable, dv, panes, query_count, active, clock,
                           screen_stack, tabs_active, detail, running, files,
                           notification, formatted, proc>>

\* the next window of the same query: offset + limit
FetchNextWindow ==
    /\ scan.windows > 0
    /\ scan.windows < MaxWindows
    /\ scan.ok
    /\ scan.limit > 0
    /\ scan.rows # << >>
    /\ LET offset == scan.offset + scan.limit
           r == fetch_rows(dbTable, TableName, offset, scan.limit, scan.order_by,
                           scan.order_dir, scan.where)
       IN  /\ scan' = [scan EXCEPT !.windows = @ + 1, !.offset = offset,
                                   !.ok = r.ok,
                                   !.rows = IF r.ok THEN r.rows ELSE << >>,
                                   !.acc = IF r.ok THEN @ \o r.rows ELSE @]
           /\ last' = Event("fetch_rows", IF r.ok THEN "ok" ELSE "error")
    /\ UNCHANGED <<dbTable, dv, panes, query_count, active, clock, screen_stack,
                   tabs_active, detail, running, files, notification, formatted, proc>>

(***************************************************************************)
(* _format_cell: a text is a sequence of runs <<c, n>>, n times the        *)
(* character c; the escaped bracket "\\[" is one unit of two characters    *)
(***************************************************************************)
DV_MAX_CELL_LENGTH == 120

QP_MAX_CELL_LENGTH == 100

PREVIEW_BYTES == 8

Chars(c, n) == IF n > 0 THEN << <<c, n>> >> ELSE << >>

UnitLen(c) == IF c = "\\[" THEN 2 ELSE 1

\* len(text)
RECURSIVE TextLen(_)
TextLen(t) == IF t = << >> THEN 0 ELSE UnitLen(Head(t)[1]) * Head(t)[2] + TextLen(Tail(t))

\* text[:n] of a text without escaped units
RECURSIVE TextTake(_, _)
TextTake(t, n) ==
    IF n <= 0 \/ t = << >> THEN << >>
    ELSE IF Head(t)[2] <= n THEN <<Head(t)>> \o TextTake(Tail(t), n - Head(t)[2])
    ELSE << <<Head(t)[1], n>> >>

\* text.replace("[", r"\[")
RECURSIVE EscapeMarkup(_)
EscapeMarkup(t) ==
    IF t = << >> THEN << >>
    ELSE << <<IF Head(t)[1] = "[" THEN "\\[" ELSE Head(t)[1], Head(t)[2]>> >>
         \o EscapeMarkup(Tail(t))

\* the values of a cell: None, bytes (their number, and the first bytes as
\* runs), str, and int with its decimal text
NullValue == [type |-> "NoneType", chars |-> << >>, size |-> 0]

TextLengths == {0, 1, 50, QP_MAX_CELL_LENGTH - 1, QP_MAX_CELL_LENGTH,
                QP_MAX_CELL_LENGTH + 1, DV_MAX_CELL_LENGTH - 1, DV_MAX_CELL_LENGTH,
                DV_MAX_CELL_LENGTH + 1, 2 * QP_MAX_CELL_LENGTH}

\* a str of n characters "x", the "[" of a markup tag put at position k
StrValue(n, k) ==
    [type |-> "str",
     chars |-> IF k \in 1 .. n
               THEN Chars("x", k - 1) \o Chars("[", 1) \o Chars("x", n - k)
               ELSE Chars("x", n),
     size |-> n]

BytesValue(n) == [type |-> "bytes", chars |-> Chars("00", n), size |-> n]

IntValue(digits) == [type |-> "int", chars |-> Chars("1", digits), size |-> digits]

CellValues ==
    {NullValue}
    \cup {StrValue(n, k) : n \in TextLengths,
                           k \in {0, 1, QP_MAX_CELL_LENGTH, DV_MAX_CELL_LENGTH}}
    \cup {BytesValue(n) : n \in {0, 4, PREVIEW_BYTES, PREVIEW_BYTES + 1, 1000}}
    \cup {IntValue(digits) : digits \in {1, 18}}

\* the formatted text: its characters, and for bytes the size shown in
\* "<BLOB {size} bytes: {hex}{ellipsis}>"
FormatCell(value, MAX_CELL_LENGTH) ==
    IF value.type = "NoneType" THEN [chars |-> Chars("NULL", 1), blob |-> << >>]
    ELSE IF value.type = "bytes"
    THEN [chars |-> TextTake(value.chars, PREVIEW_BYTES)
                    \o (IF value.size > PREVIEW_BYTES THEN Chars("...", 1) ELSE << >>),
          blob |-> <<value.size>>]
    ELSE LET text == value.chars
             cut  == IF TextLen(text) > MAX_CELL_LENGTH
                     THEN TextTake(text, MAX_CELL_LENGTH) \o Chars(".", 3)
                     ELSE text
         IN  [chars |-> EscapeMarkup(cut), blob |-> << >>]

\* DataViewerTab._format_cell
DataViewerFormatCell(value) == FormatCell(value, DV_MAX_CELL_LENGTH)

\* QueryPane._format_cell
QueryPaneFormatCell(value) == FormatCell(value, QP_MAX_CELL_LENGTH)

NoCell == [widget |-> "none"]

\* viewer._format_cell(value), called as the tests call it
FormatInBrowser ==
    /\ \E value \in CellValues :
          formatted' = [widget |-> "data", value |-> value,
                        text |-> DataViewerFormatCell(value)]
    /\ last' = Event("format_cell", "none")
    /\ UNCHANGED <<dbTable, dv, panes, query_count, active, clock, screen_stack,
                   tabs_active, detail, running, files, notification, scan, proc>>

FormatInPane ==
    /\ \E value \in CellValues :
          formatted' = [widget |-> "sql", value |-> value,
                        text |-> QueryPaneFormatCell(value)]
    /\ last' = Event("format_cell", "none")
    /\ UNCHANGED <<dbTable, dv, panes, query_count, active, clock, screen_stack,
                   tabs_active, detail, running, files, notification, scan, proc>>

(***************************************************************************)
(* The process: SQVApp.__init__, compose, quit and on_unmount              *)
(***************************************************************************)
PathInputs == {"database", "missing", "directory"}

\* sqlite3.connect(path): creates the file when there is none, and fails on
\* what is not a file
sqlite3_connect(p) ==
    IF p.path = "directory" THEN [ok |-> FALSE, error |-> "OperationalError",
                                  connects |-> p.connects + 1, exists |-> p.exists]
    ELSE [ok |-> TRUE, error |-> None, connects |-> p.connects + 1, exists |-> TRUE]

\* DatabaseConnection.__init__ without its test of path.exists()
DatabaseConnectionInit_NoExistsCheck(p) == sqlite3_connect(p)

\* DatabaseConnection.__init__
DatabaseConnectionInit(p) ==
    IF ~p.exists THEN [ok |-> FALSE, error |-> "FileNotFoundError",
                       connects |-> p.connects, exists |-> p.exists]
    ELSE sqlite3_connect(p)

\* SQVApp.__init__: both exceptions end the process with sys.exit(1)
SQVAppInit ==
    /\ proc.phase = "started"
    /\ LET r == DatabaseConnectionInit(proc)
       IN  proc' = [proc EXCEPT !.phase = IF r.ok THEN "constructed" ELSE "exited",
                                !.exists = r.exists,
                                !.connects = r.connects,
                                !.opens = IF r.ok THEN @ + 1 ELSE @,
                                !.exit_status = IF r.ok THEN @ ELSE <<1>>]
    /\ last' = Event("init", "none")
    /\ UNCHANGED <<dbTable, dv, panes, query_count, active, clock, screen_stack,
                   tabs_active, detail, running, files, notification, scan, formatted>>

\* app.run() up to the first screen: SQVApp.compose builds the three tabs,
\* whose compose and on_mount read the schema (get_tables) outside any
\* try; an exception there ends the application
Compose ==
    /\ proc.phase = "constructed"
    /\ proc' = [proc EXCEPT !.phase = "running"]
    /\ running' = ~dbTable.locked
    /\ last' = Event("compose", IF dbTable.locked THEN "error" ELSE "ok")
    /\ UNCHANGED <<dbTable, dv, panes, query_count, active, clock, screen_stack,
                   tabs_active, detail, files, notification, scan, formatted>>

\* ctrl+q: App.action_quit
ActionQuit ==
    /\ proc.phase = "running"
    /\ running
    /\ running' = FALSE
    /\ last' = Event("quit", "none")
    /\ UNCHANGED <<dbTable, dv, panes, query_count, active, clock, screen_stack,
                   tabs_active, detail, files, notification, direct>>

\* SQVApp.on_unmount without the call of close
on_unmount_NoClose(p) == [p EXCEPT !.phase = "exited", !.exit_status = <<0>>]

\* SQVApp.on_unmount and DatabaseConnection.close; main returns after it
on_unmount(p) ==
    [p EXCEPT !.phase = "exited", !.closes = @ + 1, !.exit_status = <<0>>]

\* the application stops, after quit or after an exception left a handler:
\* the framework unmounts the application
OnUnmount ==
    /\ proc.phase = "running"
    /\ ~running
    /\ proc' = on_unmount(proc)
    /\ last' = Event("unmount", "none")
    /\ UNCHANGED <<dbTable, dv, panes, query_count, active, clock, screen_stack,
                   tabs_active, detail, running, files, notification, scan, formatted>>

(***************************************************************************)
(* SQLTab: the query tabs; SQVApp: the three tabs                          *)
(***************************************************************************)
\* Number of query tabs opened where every handler of a pane is exercised.
MaxPanes == 2

\* QueryPane(self.db, query_id)
NewQueryPane(query_id) == [QueryPaneInit EXCEPT !.query_id = query_id]

\* SQLTab._add_query that tests the bound after adding
AddedQuery_BoundAfter(count) == count <= MAX_QUERIES

\* SQLTab._add_query: whether a tab is added
AddedQuery(count) == ~(count >= MAX_QUERIES)

\* SQLTab.action_add_query -> _add_query
AddQuery ==
    /\ IF AddedQuery(query_count)
       THEN /\ query_count' = query_count + 1
            /\ panes' = Append(panes, NewQueryPane(query_count + 1))
            /\ active' = query_count + 1
            /\ UNCHANGED notification
       ELSE /\ notification' = [severity |-> "warning",
                                message |-> <<"Maximum of", MAX_QUERIES, "queries reached">>]
            /\ UNCHANGED <<query_count, panes, active>>
    /\ last' = [Event("add_query", "none") EXCEPT !.sql = <<query_count>>]
    /\ UNCHANGED <<dbTable, dv, clock, screen_stack, tabs_active, detail, running,
                   files, direct>>

\* SQLTab.action_switch_query: whether the tab is switched
SwitchedQuery(query_num, count) == ~(query_num > count)

\* SQLTab.action_switch_query(query_num), bound to alt+1 .. alt+5
SwitchQuery ==
    \E query_num \in 1 .. MAX_QUERIES :
        /\ active' = IF SwitchedQuery(query_num, query_count) THEN query_num ELSE active
        /\ last' = [Event("switch_query", "none") EXCEPT !.sql = <<query_num>>]
        /\ UNCHANGED <<dbTable, dv, panes, query_count, env>>

\* SQVApp.action_switch_tab
ActionSwitchTab ==
    /\ screen_stack = << >>
    /\ \E tab_id \in {"structure", "data", "sql"} :
          /\ tab_id # tabs_active
          /\ tabs_active' = tab_id
    /\ last' = Event("switch_tab", "none")
    /\ UNCHANGED <<dbTable, dv, panes, query_count, active, clock, screen_stack,
                   detail, running, files, notification, direct>>

(***************************************************************************)
(* Specification                                                           *)
(***************************************************************************)
InitWidgets(tab) ==
    /\ dbTable \in {[exists |-> TRUE, rows |-> BlockRows(n), in_transaction |-> FALSE,
                     disk |-> [exists |-> TRUE, rows |-> BlockRows(n)],
                     locked |-> FALSE] :
                        n \in 0 .. MaxBlocks}
    /\ dv = DataViewerInit
    /\ panes = <<QueryPaneInit>>
    /\ query_count = 1
    /\ active = 1
    /\ last = Event("init", "none")
    /\ clock = StartTime
    /\ screen_stack = << >>
    /\ tabs_active = tab
    /\ detail = "Select an object to view its definition"
    /\ files = [f \in FileNames |-> NoFile]
    /\ notification = [severity |-> "none", message |-> << >>]
    /\ scan = NoScan
    /\ formatted = NoCell

\* the application on a database file, composed and running
InitOn(tab) ==
    /\ InitWidgets(tab)
    /\ running = TRUE
    /\ proc = [phase |-> "running", path |-> "database", exists |-> TRUE,
               connects |-> 1, opens |-> 1, closes |-> 0, exit_status |-> NoCount]

\* the process before SQVApp(args.database): the path names a database
\* file, nothing, or something the engine cannot open
InitStartup ==
    /\ InitWidgets("structure")
    /\ running = FALSE
    /\ \E path \in PathInputs :
          proc = [phase |-> "started", path |-> path, exists |-> path # "missing",
                  connects |-> 0, opens |-> 0, closes |-> 0, exit_status |-> NoCount]

\* SQVApp after compose: the first tab is shown
Init == InitOn("structure")

\* the application once action_switch_tab has shown the data browser or the
\* query tab
InitCell == \E tab \in {"data", "sql"} : InitOn(tab)

\* the data browser
BrowserNext(texts, keys) ==
    \/ OnSelectChanged
    \/ ClearFilter
    \/ ApplyFilter(texts)
    \/ OnHeaderSelected(keys)
    \/ ActionNextPage
    \/ ActionPrevPage
    \/ ActionFirstPage
    \/ ActionLastPage

\* page navigation in the active query pane
PaneNavNext ==
    \/ PaneNextPage
    \/ PanePrevPage
    \/ PaneFirstPage
    \/ PaneLastPage

\* the data browser and a query pane on the shared connection
Next ==
    \/ BrowserNext(FewFilterInputs, {"id"})
    \/ ExecuteSql(SqlInputs)
    \/ PaneNavNext

Spec == Init /\ [][Next]_vars

\* the data browser, with every filter text and sort column, while a query
\* pane runs statements that change the browsed table
BrowseNext ==
    \/ BrowserNext(FilterInputs, {"id", "v"})
    \/ ExecuteSql(MutatingInputs)

SpecBrowse == Init /\ [][BrowseNext]_vars

\* cell events of the tab shown (the data browser on a loaded table, or a
\* query pane on an executed query) as time passes; the two widgets share
\* nothing of what the events change, and the tab stays
CellNext ==
    \/ OnSelectChanged
    \/ ExecuteSql({"select"})
    \/ OnCellHighlighted
    \/ OnCellSelected
    \/ PaneOnCellHighlighted
    \/ PaneOnCellSelected
    \/ ActionClose
    \/ Tick

SpecCell == InitCell /\ [][CellNext]_vars

\* the three tabs while another process locks and unlocks the database
\* file; a handler runs only while the application does
SessionNext ==
    \/ running /\ OnObjectSelected
    \/ running /\ OnSelectChanged
    \/ running /\ ApplyFilter({"", "id > 1"})
    \/ running /\ ActionNextPage
    \/ running /\ ExecuteSql({"select", "delete"})
    \/ OtherProcessLocks
    \/ OtherProcessUnlocks

SpecSession == Init /\ [][SessionNext]_vars

\* exports of the active query pane between statements and page changes
ExportNext ==
    \/ ExecuteSql({"empty", "select", "syntax", "delete", "drop"})
    \/ PaneNextPage
    \/ PaneFirstPage
    \/ HandleExport
    \/ HandleExportCancelled

SpecExport == Init /\ [][ExportNext]_vars

\* the database layer alone: windows of the table, which nothing modifies
FetchNext ==
    \/ FetchRows
    \/ FetchNextWindow

SpecFetch == Init /\ [][FetchNext]_vars

\* the two cell formatters alone
FormatNext ==
    \/ FormatInBrowser
    \/ FormatInPane

SpecFormat == Init /\ [][FormatNext]_vars

\* one run of the process, from SQVApp(path) to the end of main, while
\* another process locks and unlocks the database file
LifecycleNext ==
    \/ SQVAppInit
    \/ Compose
    \/ running /\ OnObjectSelected
    \/ running /\ OnSelectChanged
    \/ running /\ ActionNextPage
    \/ running /\ ExecuteSql({"select", "delete"})
    \/ ActionQuit
    \/ OnUnmount
    \/ OtherProcessLocks
    \/ OtherProcessUnlocks

SpecLifecycle == InitStartup /\ [][LifecycleNext]_vars

\* the query tabs: tabs are added and switched while queries run
TabsNext ==
    \/ AddQuery
    \/ SwitchQuery
    \/ ExecuteSql({"select"})
    \/ PaneNextPage

SpecTabs == Init /\ [][TabsNext]_vars

\* the query tab is shown and no modal screen covers it
OnSqlTab == tabs_active = "sql" /\ screen_stack = << >>

\* a table of more than one page, browsed from the data browser and queried
\* from up to MaxPanes query panes
InitPanes == Init /\ Len(dbTable.rows) = 2

\* at most one export is requested in a run
PanesNext ==
    \/ ActionSwitchTab
    \/ tabs_active = "data" /\ OnSelectChanged
    \/ OnSqlTab /\ query_count < MaxPanes /\ AddQuery
    \/ OnSqlTab /\ SwitchQuery
    \/ OnSqlTab /\ ExecuteSql({"select"})
    \/ OnSqlTab /\ PaneNextPage
    \/ PaneOnCellHighlighted
    \/ PaneOnCellSelected
    \/ ActionClose
    \/ OnSqlTab /\ notification.severity = "none" /\ HandleExport

SpecPanes == InitPanes /\ [][PanesNext]_vars

\* a query pane in which statements fail between executions, page changes
\* and exports
RerunNext ==
    \/ ExecuteSql({"empty", "select", "syntax", "select 1, 1"})
    \/ PaneNextPage
    \/ PanePrevPage
    \/ HandleExport

SpecRerun == Init /\ [][RerunNext]_vars

\* cell inspection in the tab shown, by cell events and by the Enter
\* binding, between loads and executions that fail
InspectNext ==
    \/ OnSelectChanged
    \/ ApplyFilter({"", "id > 1", "bogus ("})
    \/ ActionNextPage
    \/ ExecuteSql({"select", "syntax"})
    \/ PaneNextPage
    \/ OnCellHighlighted
    \/ OnCellSelected
    \/ ActionViewCell
    \/ PaneOnCellHighlighted
    \/ PaneOnCellSelected
    \/ PaneViewCurrentCell
    \/ ActionClose

SpecInspect == InitCell /\ [][InspectNext]_vars

\* one query pane: every statement, among them the one whose result the
\* table cannot show, and every page action
PagingNext ==
    \/ ExecuteSql(SqlInputs \cup {"select 1, 1"})
    \/ PaneNavNext

SpecPaging == Init /\ [][PagingNext]_vars

(***************************************************************************)
(* Page state                                                              *)
(***************************************************************************)
ActivePane == panes[active]

\* C1: in every reachable state the offset of the data browser and of every
\* query pane is >= 0 and a multiple of the page size.
C1_OffsetIsPageMultiple ==
    /\ dv.current_offset >= 0
    /\ dv.current_offset % PAGE_SIZE = 0
    /\ \A i \in 1 .. Len(panes) :
          /\ panes[i].current_offset >= 0
          /\ panes[i].current_offset % QP_PAGE_SIZE = 0

\* the browser went back from its third page while the pane shows its third
C1_Witness ==
    /\ last.op = "prev"
    /\ last.load = "ok"
    /\ dv.current_offset = PAGE_SIZE
    /\ ActivePane.current_offset = 2 * QP_PAGE_SIZE

\* C3: next moves the offset iff offset + PAGE_SIZE < effectiveCount, and
\* then by PAGE_SIZE; otherwise the offset and the page shown stay as they
\* are (data browser and query pane).
C3_Next ==
    [][/\ last'.op = "next" =>
            IF dv.current_offset + PAGE_SIZE < EffectiveCount(dv, dbTable)
            THEN dv'.current_offset = dv.current_offset + PAGE_SIZE
            ELSE /\ dv'.current_offset = dv.current_offset
                 /\ dv'.table = dv.table
                 /\ dv'.current_rows = dv.current_rows
                 /\ last'.load = "none"
       /\ last'.op = "q_next" =>
            IF ActivePane.current_offset + QP_PAGE_SIZE < Count(ActivePane.last_rows)
            THEN ActivePane'.current_offset = ActivePane.current_offset + QP_PAGE_SIZE
            ELSE ActivePane' = ActivePane /\ last'.load = "none"]_vars

\* the browser moved from its second to its third page, the pane being on
\* its second
C3_Witness ==
    /\ last.op = "next"
    /\ last.load = "ok"
    /\ dv.current_offset = 2 * PAGE_SIZE
    /\ ActivePane.current_offset = QP_PAGE_SIZE

\* C4: prev and first move the offset iff offset > 0, prev to
\* max(0, offset - PAGE_SIZE) and first to 0; at offset 0 they change nothing
\* and reload nothing.
C4_PrevFirst ==
    [][/\ last'.op = "prev" =>
            IF dv.current_offset > 0
            THEN /\ dv'.current_offset = Max(0, dv.current_offset - PAGE_SIZE)
                 /\ dv'.current_offset # dv.current_offset
                 /\ last'.load # "none"
            ELSE dv' = dv /\ last'.load = "none"
       /\ last'.op = "first" =>
            IF dv.current_offset > 0
            THEN dv'.current_offset = 0 /\ last'.load # "none"
            ELSE dv' = dv /\ last'.load = "none"
       /\ last'.op = "q_prev" =>
            IF ActivePane.current_offset > 0
            THEN /\ ActivePane'.current_offset =
                        Max(0, ActivePane.current_offset - QP_PAGE_SIZE)
                 /\ ActivePane'.current_offset # ActivePane.current_offset
                 /\ last'.load # "none"
            ELSE ActivePane' = ActivePane /\ last'.load = "none"
       /\ last'.op = "q_first" =>
            IF ActivePane.current_offset > 0
            THEN ActivePane'.current_offset = 0 /\ last'.load # "none"
            ELSE ActivePane' = ActivePane /\ last'.load = "none"]_vars

\* first took the browser back to the first page of more than two pages
C4_Witness ==
    /\ last.op = "first"
    /\ last.load = "ok"
    /\ dv.current_offset = 0
    /\ dv.page_info[1] = "Rows"
    /\ dv.page_info[4] > 2 * PAGE_SIZE

\* C5: last is taken iff effectiveCount > PAGE_SIZE, and from any offset it
\* sets the offset to floor((effectiveCount - 1) / PAGE_SIZE) * PAGE_SIZE.
C5_Last ==
    [][/\ last'.op = "last" =>
            LET effective_count == EffectiveCount(dv, dbTable)
            IN  IF effective_count > PAGE_SIZE
                THEN /\ dv'.current_offset =
                            ((effective_count - 1) \div PAGE_SIZE) * PAGE_SIZE
                     /\ last'.load # "none"
                ELSE dv'.current_offset = dv.current_offset /\ last'.load = "none"
       /\ last'.op = "q_last" =>
            LET total == Count(ActivePane.last_rows)
            IN  IF total > QP_PAGE_SIZE
                THEN /\ ActivePane'.current_offset =
                            ((total - 1) \div QP_PAGE_SIZE) * QP_PAGE_SIZE
                     /\ last'.load # "none"
                ELSE ActivePane' = ActivePane /\ last'.load = "none"]_vars

\* last took the browser to the second page of exactly 2 * PAGE_SIZE rows
C5_Witness ==
    /\ last.op = "last"
    /\ last.load = "ok"
    /\ dv.current_offset = PAGE_SIZE
    /\ dv.page_info = <<"Rows", PAGE_SIZE + 1, 2 * PAGE_SIZE, 2 * PAGE_SIZE>>

(***************************************************************************)
(* The page shown by the data browser                                      *)
(***************************************************************************)
BrowserOps ==
    {"select_table", "clear_filter", "apply_filter", "header",
     "next", "prev", "first", "last"}

\* the rows of the browsed table that satisfy the browser's filter, in the
\* browser's sort order, as the engine holds them now
BrowsedRows ==
    OrderRows(IF dv.where_clause # None THEN WhereRows(dbTable.rows, dv.where_clause)
              ELSE dbTable.rows, dv.order_by, dv.order_dir)

\* C2: after every load of the data browser with an effective count > 0, the
\* offset is below the effective count and the rows shown are the rows
\* [offset, min(offset + PAGE_SIZE, count)) of the filtered, sorted table,
\* also when a query pane inserts or deletes rows between the loads.
C2_PageWithinCount ==
    (last.op \in BrowserOps /\ last.load = "ok" /\ EffectiveCount(dv, dbTable) > 0) =>
        /\ dv.current_offset < EffectiveCount(dv, dbTable)
        /\ dv.table.rows =
               PySlice(BrowsedRows, dv.current_offset,
                       Min(dv.current_offset + PAGE_SIZE, EffectiveCount(dv, dbTable)))

PaneOps == {"execute", "q_next", "q_prev", "q_first", "q_last"}

\* C6: after every load, display refresh and failed load or execution the
\* buttons show the page state: first and prev are enabled iff offset > 0,
\* next and last iff offset + PAGE_SIZE < effectiveCount, the count the
\* navigation actions use.
C6_ButtonsMatchPage ==
    /\ (last.op \in BrowserOps /\ last.load # "none") =>
            dv.nav = NavButtons(dv.current_offset > 0,
                                dv.current_offset + PAGE_SIZE < EffectiveCount(dv, dbTable))
    /\ (last.op \in PaneOps /\ last.load # "none") =>
            ActivePane.nav =
                NavButtons(ActivePane.current_offset > 0,
                           ActivePane.current_offset + QP_PAGE_SIZE
                               < Count(ActivePane.last_rows))

(***************************************************************************)
(* Resets of the page state                                                *)
(***************************************************************************)
ChangeOps == {"header", "apply_filter", "clear_filter", "select_table"}

FreshFilteredCount ==
    LET r == count_query(dbTable, dv.current_table, dv.where_clause)
    IN  IF r.ok THEN r.value ELSE 0

\* the cached filtered count holds nothing older than the present table
CountInvalidated ==
    IF dv.where_clause = None THEN dv.filtered_count = NoCount
    ELSE dv.filtered_count \in {NoCount, <<FreshFilteredCount>>}

\* C8 as stated: every sort change, filter change and table change of the
\* data browser unsets the cached filtered count, so that the load it starts
\* counts again.
C8_CountInvalidated == last.op \in ChangeOps => CountInvalidated

\* C8 amended: every filter change (apply, clear) and table change unsets
\* the cached filtered count, so that the load it starts counts again; a
\* sort change leaves the cached filtered count as it is.
C8_CountInvalidatedByFilterAndTable ==
    [][/\ last'.op \in ChangeOps \ {"header"} =>
            IF dv'.where_clause = None THEN dv'.filtered_count = NoCount
            ELSE dv'.filtered_count \in
                   {NoCount,
                    <<LET r == count_query(dbTable', dv'.current_table, dv'.where_clause)
                      IN  IF r.ok THEN r.value ELSE 0>>}
       /\ last'.op = "header" => dv'.filtered_count = dv.filtered_count]_vars

\* a sort change kept a filtered count that the table no longer has
C8_Witness ==
    /\ last.op = "header"
    /\ last.load = "ok"
    /\ dv.filtered_count # NoCount
    /\ dv.filtered_count # <<FreshFilteredCount>>

(***************************************************************************)
(* The effective count                                                     *)
(***************************************************************************)
\* C9: whenever a navigation action or a load of the data browser uses the
\* effective count, it is the table's current row count when no filter is
\* active, and the number of rows that satisfy the filter now when one is.
C9_CountIsCurrent ==
    [][/\ (last'.op \in {"next", "last"} /\ dv.current_table # None /\ dbTable.exists
              /\ dv.where_clause \in {None, "id > 1"}) =>
            EffectiveCount(dv, dbTable) = Count(BrowsedRows)
       /\ (last'.op \in BrowserOps /\ last'.load = "ok") =>
            EffectiveCount(dv', dbTable') = Count(BrowsedRows')]_vars

\* C10: between two consecutive filter or table changes the filtered
\* COUNT(*) query is issued at most once, also when it failed.
C10_CountedOnce == dv.count_queries <= 1

\* a navigation action found the failed count of a rejected filter cached
C10_Witness ==
    /\ last.op \in {"next", "last"}
    /\ dv.where_clause = "bogus ("
    /\ dv.filtered_count = <<0>>
    /\ dv.count_queries = 1

(***************************************************************************)
(* The sort of the data browser                                            *)
(***************************************************************************)
\* C11: a header selection toggles the direction when its column is the
\* sort column and otherwise makes its column the sort column, ascending; a
\* table selection resets the sort to no column, ascending; filter apply,
\* filter clear and navigation leave the sort as it is.
C11_SortSpec ==
    [][/\ last'.op = "header" =>
            \/ /\ dv'.order_by = dv.order_by
               /\ dv.order_by # None
               /\ dv'.order_dir = IF dv.order_dir = "ASC" THEN "DESC" ELSE "ASC"
            \/ /\ dv'.order_by # dv.order_by
               /\ \E i \in 1 .. Len(dv.table.columns) : dv'.order_by = dv.table.columns[i]
               /\ dv'.order_dir = "ASC"
       /\ last'.op = "select_table" => dv'.order_by = None /\ dv'.order_dir = "ASC"
       /\ last'.op \in {"apply_filter", "clear_filter", "next", "prev", "first", "last"} =>
            dv'.order_by = dv.order_by /\ dv'.order_dir = dv.order_dir]_vars

\* a navigation action kept a descending sort on the second column
C11_Witness ==
    /\ last.op \in {"next", "last"}
    /\ last.load = "ok"
    /\ dv.order_by = "v"
    /\ dv.order_dir = "DESC"
    /\ dv.current_offset > 0

(***************************************************************************)
(* Cell inspection                                                         *)
(***************************************************************************)
\* a select event of the data browser, or of the active query pane, was handled
BrowserSelects == last'.op = "cell_selected"

PaneSelects == last'.op = "q_cell_selected"

\* the detail view opened in this step
ViewerOpened == Len(screen_stack') = Len(screen_stack) + 1

\* the select handled in this step, the one wn records, is on the cell of
\* the latest highlight of w
OnHighlightedCell(w, wn) ==
    wn.last_select[1] = w.last_highlight[1] /\ wn.last_select[2] = w.last_highlight[2]

\* the select handled in this step is on the cell of the select before it
OnSelectedCell(w, wn) ==
    wn.last_select[1] = w.last_select[1] /\ wn.last_select[2] = w.last_select[2]

\* rule 1 applies to the select handled in this step
Rule1(w, wn) == OnHighlightedCell(w, wn) /\ clock - w.last_highlight[3] > DEBOUNCE_MS

\* rule 2 applies to the select handled in this step
Rule2(w, wn) ==
    ~Rule1(w, wn) /\ OnSelectedCell(w, wn) /\ clock - w.last_select[3] < DOUBLE_CLICK_MS

\* the select is recorded as the last select, at the time it was handled
Recorded(wn) == wn.last_select[3] = clock /\ wn.last_select[1] >= 0 /\ wn.last_select[2] >= 0

KeyboardConfirmRule(w, wn) ==
    /\ Rule1(w, wn) => ViewerOpened /\ Recorded(wn)
    /\ (OnHighlightedCell(w, wn) /\ clock - w.last_highlight[3] = DEBOUNCE_MS
          /\ ~Rule2(w, wn)) => screen_stack' = screen_stack

\* C12: a select on the cell of the latest highlight, more than 100 ms after
\* it, opens the detail view whatever the select before it was, and is
\* recorded as the last select; 100 ms after it exactly, the highlight opens
\* nothing.
C12_KeyboardConfirm ==
    [][/\ BrowserSelects => KeyboardConfirmRule(dv, dv')
       /\ PaneSelects => KeyboardConfirmRule(panes[active], panes'[active])]_vars

\* a select 200 ms after the highlight of its cell opened the detail view
C12_Witness ==
    /\ last.op \in {"cell_selected", "q_cell_selected"}
    /\ LET w == IF last.op = "cell_selected" THEN dv ELSE ActivePane
       IN  /\ w.last_select[1] = w.last_highlight[1]
           /\ w.last_select[2] = w.last_highlight[2]
           /\ w.last_select[3] = w.last_highlight[3] + 2 * DEBOUNCE_MS
           /\ w.last_trigger = "confirm"
    /\ Len(screen_stack) = 1

DoubleActivationRule(w, wn) ==
    /\ Rule2(w, wn) => ViewerOpened
    /\ (~Rule1(w, wn) /\ OnSelectedCell(w, wn)
          /\ clock - w.last_select[3] >= DOUBLE_CLICK_MS) => screen_stack' = screen_stack

\* C13: when rule 1 does not apply, a select on the cell of the select
\* before it, less than 500 ms after it, opens the detail view; 500 ms after
\* it or later it opens nothing.
C13_DoubleActivation ==
    [][/\ BrowserSelects => DoubleActivationRule(dv, dv')
       /\ PaneSelects => DoubleActivationRule(panes[active], panes'[active])]_vars

\* a select 300 ms after the start, on the cell of the select before it and
\* less than 500 ms after it, opened the detail view, no cell ever having been
\* highlighted
C13_Witness ==
    /\ last.op \in {"cell_selected", "q_cell_selected"}
    /\ LET w == IF last.op = "cell_selected" THEN dv ELSE ActivePane
       IN  /\ w.last_highlight = <<-1, -1, 0>>
           /\ w.last_select[3] = StartTime + 3 * TickMs
           /\ w.last_trigger = "double"
    /\ Len(screen_stack) = 1

NoActivationRule(w, wn) ==
    (~Rule1(w, wn) /\ ~Rule2(w, wn)) => screen_stack' = screen_stack /\ Recorded(wn)

\* C14: a select to which neither rule 1 nor rule 2 applies opens nothing
\* and is recorded as the last select.
C14_NoActivation ==
    [][/\ BrowserSelects => NoActivationRule(dv, dv')
       /\ PaneSelects => NoActivationRule(panes[active], panes'[active])]_vars

\* the first select of a tab, no cell having been highlighted, opened nothing
C14_Witness ==
    /\ last.op \in {"cell_selected", "q_cell_selected"}
    /\ LET w == IF last.op = "cell_selected" THEN dv ELSE ActivePane
       IN  /\ w.last_highlight = <<-1, -1, 0>>
           /\ w.last_select = <<1, 0, StartTime>>
           /\ w.last_trigger = "none"
    /\ screen_stack = << >>

OncePerIntent(w, wn) ==
    /\ Len(screen_stack') <= Len(screen_stack) + 1
    /\ (w.last_trigger = "double" /\ ~Rule1(w, wn) /\ OnSelectedCell(w, wn)
          /\ clock - w.last_select[3] < DOUBLE_CLICK_MS) => screen_stack' = screen_stack

\* C15: one select opens the detail view once at most, and after a
\* double-activation has opened it, a third select on the cell less than
\* 500 ms after the second opens nothing.
C15_OncePerIntent ==
    [][/\ BrowserSelects => OncePerIntent(dv, dv')
       /\ PaneSelects => OncePerIntent(panes[active], panes'[active])]_vars

(***************************************************************************)
(* Statements of the query tab                                             *)
(***************************************************************************)
NoTable == [columns |-> << >>, rows |-> << >>]

\* C16: a text of more than one statement fails with an engine error, leaves
\* the database as it was, and the pane shows the error and no results.
C16_OneStatement ==
    [][(last'.op = "execute" /\ last'.sql = "multi") =>
            /\ last'.load = "error"
            /\ dbTable' = dbTable
            /\ ActivePane'.status = "Error"
            /\ ActivePane'.table = NoTable]_vars

\* two statements were submitted to a pane that showed the rows of the table
C16_Witness ==
    /\ last.op = "execute"
    /\ last.sql = "multi"
    /\ dbTable.exists
    /\ dbTable.rows # << >>
    /\ ActivePane.last_rows = dbTable.rows
    /\ ActivePane.table = NoTable

\* the number in the single row of a rows_affected result kept by pane p
RowsAffected(p) == ElemAt(p.last_rows, 1)

\* C17: a statement that succeeds with a result set returns its column names
\* and rows; one that succeeds without (INSERT, UPDATE, DELETE) returns the
\* column rows_affected and one row with the number of rows changed, and its
\* change is committed: later reads see it and no transaction is open.
C17_ExecuteResult ==
    [][(last'.op = "execute" /\ last'.load = "ok") =>
            IF last'.sql = "select"
            THEN /\ ActivePane'.last_columns = TableColumns
                 /\ ActivePane'.last_rows = dbTable.rows
                 /\ dbTable' = dbTable
            ELSE /\ ActivePane'.last_columns = <<"rows_affected">>
                 /\ Count(ActivePane'.last_rows) = 1
                 /\ last'.sql = "insert" =>
                        Count(dbTable'.rows) = Count(dbTable.rows) + RowsAffected(ActivePane')
                 /\ last'.sql = "delete" =>
                        Count(dbTable'.rows) = Count(dbTable.rows) - RowsAffected(ActivePane')
                 /\ ~dbTable'.in_transaction
                 /\ dbTable'.disk = [exists |-> dbTable'.exists, rows |-> dbTable'.rows]
                 /\ dbTable'.exists =>
                        get_row_count(dbTable', TableName).value = Count(dbTable'.rows)]_vars

\* a DELETE removed the single row of the last block, and a load of the data
\* browser after it counted the rows that are left
C17_Witness ==
    /\ last.op = "select_table"
    /\ last.load = "ok"
    /\ ActivePane.last_columns = <<"rows_affected">>
    /\ ActivePane.last_rows = << <<1, 1>> >>
    /\ Len(dbTable.rows) = 1
    /\ dv.total_rows = PAGE_SIZE
    /\ ~dbTable.in_transaction

(***************************************************************************)
(* Engine failures                                                         *)
(***************************************************************************)
\* C18: after startup no engine failure ends the session: the failure of a
\* database call made for a user action (query execution, table load, filter
\* count, showing an object's definition) is caught and shown as a message,
\* and the application keeps running.
C18_SessionSurvives ==
    /\ running
    /\ (last.op \in BrowserOps /\ last.load = "error") => dv.status = "Error"
    /\ (last.op = "execute" /\ last.load = "error") => ActivePane.status = "Error"

(***************************************************************************)
(* Export                                                                  *)
(***************************************************************************)
\* an export step: its format, its file name, and whether it reported an error
Exports == last'.op = "export" /\ last'.load # "none"

ExportFailed == notification'.severity = "error"

\* C19: export_results returns an error and creates or overwrites no file
\* when the stored columns or rows are empty (the no-data error, also when
\* the format is invalid) or when the format is neither csv nor json (the
\* unsupported-format error); it returns no error only once the file is
\* written.
C19_ExportErrors ==
    [][Exports =>
        /\ (ActivePane.last_columns = << >> \/ ActivePane.last_rows = << >>) =>
                /\ notification'.message = <<"Export failed", "No results to export">>
                /\ ExportFailed
                /\ files' = files
        /\ (ActivePane.last_columns # << >> /\ ActivePane.last_rows # << >>
              /\ last'.sql[1] \notin {"csv", "json"}) =>
                /\ notification'.message = <<"Export failed", "Unknown format", last'.sql[1]>>
                /\ ExportFailed
                /\ files' = files
        /\ ~ExportFailed =>
                files'[last'.sql[2]].format = last'.sql[1]]_vars

\* an export in an unknown format failed and left the file of an earlier
\* export as it was
C19_Witness ==
    /\ last.op = "export"
    /\ last.load = "error"
    /\ last.sql = <<"xml", "out">>
    /\ notification.severity = "error"
    /\ files["out"].format = "json"

\* C20: a successful export writes the whole stored result set: CSV, a
\* header record of the column names in order and one record for each stored
\* row in order; JSON, one object for each stored row in order, with the
\* column names as keys.
C20_ExportWhole ==
    [][(Exports /\ ~ExportFailed) =>
        LET f == files'[last'.sql[2]]
        IN  IF last'.sql[1] = "csv"
            THEN /\ f.header = ActivePane.last_columns
                 /\ f.records = ActivePane.last_rows
                 /\ Count(f.records) = Count(ActivePane.last_rows)
            ELSE /\ f.keys = ActivePane.last_columns
                 /\ f.objects = ActivePane.last_rows
                 /\ Count(f.objects) = Count(ActivePane.last_rows)]_vars

\* the 1001 rows of a result were exported as CSV from its last page, which
\* shows one row
C20_Witness ==
    /\ last.op = "export"
    /\ last.load = "ok"
    /\ last.sql = <<"csv", "out">>
    /\ ActivePane.current_offset = 2 * QP_PAGE_SIZE
    /\ Count(ActivePane.table.rows) = 1
    /\ Count(files["out"].records) = 2 * QP_PAGE_SIZE + 1


(***************************************************************************)
(* Windows of fetch_rows                                                   *)
(***************************************************************************)
\* the ids of a list of rows
RowIds(rl) == UNION {Min(rl[i][1], rl[i][2]) .. Max(rl[i][1], rl[i][2]) :
                        i \in 1 .. Len(rl)}

\* the ids of the rows of the table that satisfy the filter of the scan
Matching ==
    IF scan.where = "id > 1" THEN {id \in RowIds(dbTable.rows) : id > 1}
    ELSE RowIds(dbTable.rows)

\* the value of the sort column in the row id (v = -id)
SortKey(id, col) == IF col = "v" THEN 0 - id ELSE id

\* row a comes before row b in the declared sort, or in rowid order when
\* no sort is declared
Before(a, b, col, dir) ==
    IF col = None \/ dir = "ASC" THEN SortKey(a, col) < SortKey(b, col)
    ELSE SortKey(a, col) > SortKey(b, col)

InOrder(rl, col, dir) ==
    \A i \in 1 .. Len(rl) :
        /\ rl[i][1] # rl[i][2] => Before(rl[i][1], rl[i][2], col, dir)
        /\ i < Len(rl) => Before(rl[i][2], rl[i + 1][1], col, dir)

\* the number of matching rows that come before row id in the sort
Rank(id) == Cardinality({m \in Matching : Before(m, id, scan.order_by, scan.order_dir)})

\* the scan started at offset 0 and its last window came back short
ScanComplete ==
    /\ scan.windows > 0
    /\ scan.ok
    /\ scan.start = 0
    /\ scan.limit > 0
    /\ Count(scan.rows) < scan.limit

\* C21: a window that fetch_rows returns holds min(limit, max(0, n - offset))
\* rows, n the number of rows that satisfy the filter, and they are the
\* rows at positions offset .. offset + limit - 1 of the matching rows in
\* the declared sort order; the windows at 0, L, 2L, .. up to the first
\* short one hold every matching row exactly once.
C21_FetchWindow ==
    (scan.windows > 0 /\ scan.ok) =>
        /\ Count(scan.rows)
              = Min(scan.limit, Max(0, Cardinality(Matching) - scan.offset))
        /\ RowIds(scan.rows) \subseteq Matching
        /\ InOrder(scan.rows, scan.order_by, scan.order_dir)
        /\ scan.rows # << >> =>
              /\ Rank(ElemAt(scan.rows, 1)) = scan.offset
              /\ Rank(ElemAt(scan.rows, Count(scan.rows)))
                    = scan.offset + Count(scan.rows) - 1
        /\ ScanComplete =>
              /\ Count(scan.acc) = Cardinality(Matching)
              /\ RowIds(scan.acc) = Matching
              /\ InOrder(scan.acc, scan.order_by, scan.order_dir)

\* C21 witness: a filtered, sorted scan of 1001 rows in windows of 250 has
\* fetched its last, short window
C21_Witness ==
    /\ ScanComplete
    /\ scan.windows = 5
    /\ scan.where = "id > 1"
    /\ scan.order_by = "v"
    /\ Count(scan.rows) = 0
    /\ Count(scan.acc) = 2 * PAGE_SIZE


(***************************************************************************)
(* Truncation of long texts                                                *)
(***************************************************************************)
\* the value formatted last is a str without the reserved character
PlainText ==
    /\ formatted.widget # "none"
    /\ formatted.value.type = "str"
    /\ \A i \in 1 .. Len(formatted.value.chars) : formatted.value.chars[i][1] # "["

\* C22: in both formatters a text of more than 100 characters becomes its
\* first 100 characters followed by "..." (103 characters for a plain
\* text of 200), and a text of at most 100 characters is not truncated.
C22_TruncateAt100 ==
    PlainText =>
        IF formatted.value.size > 100
        THEN /\ formatted.text.chars = TextTake(formatted.value.chars, 100) \o Chars(".", 3)
             /\ TextLen(formatted.text.chars) = 103
        ELSE formatted.text.chars = formatted.value.chars


(***************************************************************************)
(* The connection and the process                                          *)
(***************************************************************************)
\* the handlers of the tabs, each of which calls the database layer
TabHandlers == {"select_table", "object_selected", "execute", "next"}

\* C23: the connection is opened at most once; once the process has ended
\* it was closed exactly once if it was opened, and no connection was
\* opened on the two fatal startup paths; it is never closed twice or
\* before it was opened, and once it is closed no handler of a tab runs.
C23_ConnectionLifecycle ==
    /\ [](/\ proc.opens <= 1
          /\ proc.closes <= proc.opens
          /\ proc.phase = "exited" => proc.closes = proc.opens
          /\ proc.exit_status = <<1>> => proc.opens = 0)
    /\ [][proc.closes > 0 => last'.op \notin TabHandlers]_vars

\* C23 witness: a handler failed on the locked database, the application
\* stopped, and the connection it had opened was closed
C23_Witness ==
    /\ proc.phase = "exited"
    /\ proc.opens = 1
    /\ proc.closes = 1
    /\ dbTable.locked
    /\ dv.current_table = TableName

\* C24: a path at which nothing exists is refused before sqlite3.connect is
\* called: nothing is created there, the process ends with status 1 and the
\* UI never starts.
C24_MissingFile ==
    (proc.path = "missing" /\ proc.phase # "started") =>
        /\ proc.phase = "exited"
        /\ proc.exit_status = <<1>>
        /\ proc.connects = 0
        /\ ~proc.exists
        /\ ~running
        /\ last.op = "init"

\* C24 witness: the process ended on the missing path
C24_Witness ==
    /\ proc.path = "missing"
    /\ proc.phase = "exited"
    /\ proc.exit_status = <<1>>


(***************************************************************************)
(* Query tabs                                                              *)
(***************************************************************************)
\* C25: query_count starts at 1, never decreases and never exceeds
\* MAX_QUERIES; a request to add a query at the bound adds no tab; the tabs
\* carry the ids 1 .. query_count; switching to a number above query_count
\* changes neither the active tab nor any pane.
C25_BoundedTabs ==
    /\ [](/\ query_count \in 1 .. MAX_QUERIES
          /\ Len(panes) = query_count
          /\ \A i \in 1 .. query_count : panes[i].query_id = i
          /\ active \in 1 .. query_count)
    /\ [][/\ query_count' >= query_count
          /\ (last'.op = "add_query" /\ query_count = MAX_QUERIES)
                => (query_count' = query_count /\ panes' = panes /\ active' = active)
          /\ (last'.op = "switch_query" /\ last'.sql[1] > query_count)
                => (query_count' = query_count /\ panes' = panes /\ active' = active)]_vars

\* C25 witness: a sixth query was requested with five tabs open
C25_Witness ==
    /\ last.op = "add_query"
    /\ last.sql = <<MAX_QUERIES>>
    /\ query_count = MAX_QUERIES
    /\ notification.severity = "warning"


\* the handlers of the active query pane: execution, page navigation, cell
\* events and export
ActivePaneOps == {"execute", "q_next", "q_prev", "q_first", "q_last",
                  "q_cell_highlighted", "q_cell_selected", "export"}

\* C26: a handler of the active query pane leaves every other pane (its
\* result set, offset and pending highlight and select), the data browser
\* and the set of tabs as they were.
C26_PanesIndependent ==
    [][last'.op \in ActivePaneOps =>
          /\ active' = active
          /\ query_count' = query_count
          /\ \A i \in 1 .. query_count : i # active => panes'[i] = panes[i]
          /\ dv' = dv]_vars

\* C26 witness: with the table loaded in the data browser and a first pane
\* holding a result at its second page, a pending highlight and a pending
\* select, the second pane has executed and opened a cell
C26_Witness ==
    /\ query_count = 2
    /\ active = 2
    /\ dv.current_table = TableName
    /\ panes[1].current_offset = QP_PAGE_SIZE
    /\ panes[1].last_highlight[1] >= 0
    /\ panes[1].last_select[1] >= 0
    /\ panes[2].last_rows # << >>
    /\ panes[2].last_trigger # "none"
    /\ screen_stack # << >>
    /\ last.op = "q_cell_selected"


(***************************************************************************)
(* Failed executions                                                       *)
(***************************************************************************)
\* C27: an execution that fails, or is given empty text, leaves the stored
\* result set and the offset of the pane as they were, so that export and
\* page navigation go on with the result of the last successful execution.
C27_FailureKeepsResult ==
    [][(last'.op = "execute" /\ last'.load \in {"error", "none"}) =>
          /\ ActivePane'.last_columns = ActivePane.last_columns
          /\ ActivePane'.last_rows = ActivePane.last_rows
          /\ ActivePane'.current_offset = ActivePane.current_offset]_vars


\* the table widget of the tab shown
ShownTable == IF tabs_active = "data" THEN dv.table ELSE ActivePane.table

\* the coordinate for which the last handler asked a detail view
ViewedCoordinate ==
    IF last.op \in {"view_cell", "q_view_cell"} THEN last.sql
    ELSE IF last.op = "cell_selected" THEN <<dv.last_select[1], dv.last_select[2]>>
    ELSE <<ActivePane.last_select[1], ActivePane.last_select[2]>>

\* C28: a detail view that opens for (row, col) shows the raw value of the
\* cell the table displays at (row, col); none opens on a table that a
\* failed load or a failed execution has emptied.
C28_ViewerShowsDisplayedCell ==
    [][Len(screen_stack') > Len(screen_stack) =>
          /\ ViewedCoordinate'[1] < Count(ShownTable.rows)
          /\ ViewedCoordinate'[2] < Len(ShownTable.columns)
          /\ screen_stack'[Len(screen_stack')].value
                = CellValue(ShownTable.columns,
                            ElemAt(ShownTable.rows, ViewedCoordinate'[1] + 1),
                            ViewedCoordinate'[2])]_vars


(***************************************************************************)
(* Page navigation of a query pane as functions of the pane                *)
(***************************************************************************)
\* C29: in a query pane next followed by prev, where next is valid, and
\* prev followed by next, where prev is valid, return to the same offset;
\* prev always leads to a pane in which next is valid.
C29_NextPrevInverse ==
    \A i \in 1 .. query_count :
        LET p == panes[i]
        IN  /\ PaneNextValid(p) =>
                /\ PanePrevValid(PaneAfterNext(p))
                /\ PaneAfterPrev(PaneAfterNext(p)).current_offset = p.current_offset
            /\ PanePrevValid(p) =>
                /\ PaneNextValid(PaneAfterPrev(p))
                /\ PaneAfterNext(PaneAfterPrev(p)).current_offset = p.current_offset

\* C29 witness: prev has brought a pane of three pages from the last page
\* to the middle one, where both next and prev are valid
C29_Witness ==
    /\ last.op = "q_prev"
    /\ last.load = "ok"
    /\ ActivePane.current_offset = QP_PAGE_SIZE
    /\ Count(ActivePane.last_rows) = 2 * QP_PAGE_SIZE + 1
    /\ PaneNextValid(ActivePane)
    /\ PanePrevValid(ActivePane)

\* C30: in a query pane whose next and last buttons are disabled
\* (offset + PAGE_SIZE >= number of stored rows) the last action leaves the
\* offset as it is, and last after last gives the offset of one last.
C30_LastIdempotent ==
    \A i \in 1 .. query_count :
        LET p == panes[i]
        IN  /\ (p.nav.last \/ p.nav.next \/ ~PaneNextValid(p)) =>
                PaneAfterLast(p).current_offset = p.current_offset
            /\ PaneAfterLast(PaneAfterLast(p)).current_offset
                  = PaneAfterLast(p).current_offset

\* C30 witness: the last action has run in a pane of two pages, which shows
\* its last page with the next and last buttons disabled
C30_Witness ==
    /\ last.op = "q_last"
    /\ last.load = "ok"
    /\ ActivePane.nav.last
    /\ ActivePane.current_offset = QP_PAGE_SIZE
    /\ Count(ActivePane.last_rows) = QP_PAGE_SIZE + 1
    /\ ActivePane.page_info = <<"Rows", QP_PAGE_SIZE + 1, QP_PAGE_SIZE + 1, QP_PAGE_SIZE + 1>>

====
